---- MODULE Spec2Model ----
(***************************************************************************)
(* A model of cassandraengine/models.py: the metaclass that turns a record *)
(* type's column declarations into a schema (ModelMetaClass.__new__), and  *)
(* the instance operations of BaseModel that are driven by that schema.    *)
(*                                                                         *)
(* The column catalogue (cassandraengine.columns) and the Manager          *)
(* (cassandraengine.manager) are collaborators whose code is not part of   *)
(* models.py; their capabilities are modelled from their contract.         *)
(***************************************************************************)
EXTENDS Integers, Sequences, FiniteSets, TLC

(* ------------------------------------------------------------------ *)
(* Bounds of the model and the universes inputs are drawn from         *)
(* ------------------------------------------------------------------ *)

\* Column positions are drawn from 0..MaxPos.
MaxPos == 1

\* Python's None.
None == "None"

\* The names a record type body may bind a column to.
FieldNames == {"a", "id"}

\* Explicit storage names a declaration may carry (db_field=...).
DbFieldNames == {"id"}

\* The name given in the class statement.
TypeName == "User"

\* The values of the optional db_name attribute of the class body.
DbNameChoices == {None, "users"}

\* Raw values client code assigns to fields.
RawValues == {None, "v", "bad"}

\* Keyword names client code passes to the constructor ("zz" is no column).
KwargNames == FieldNames \cup {"zz"}

\* The instance variables of the client program.
Instances == {"A", "B"}

\* Keys handed to find().
Keys == {"k1"}

\* The outcomes of the Manager's find.
ManagerOutcomes == {"record", "NotFound"}

VARIABLES
    decl,      \* the column attributes of the class body: field name -> declaration
    db_name,   \* the db_name attribute of the class body (None: not given)
    phase,     \* "declared" | "built" | "failed"
    klass,     \* the class object the metaclass returned
    raised,    \* the exception the metaclass raised, if any
    inst,      \* instance -> its value slots (constructed) or the empty function
    made,      \* the instances that have been constructed
    dyn,       \* the class attribute _dynamic_columns, a set of <<key, value>>
    lastOp     \* the last operation the client ran and what it observed

vars == <<decl, db_name, phase, klass, raised, inst, made, dyn, lastOp>>

(* ------------------------------------------------------------------ *)
(* Column capability (cassandraengine.columns)                         *)
(* ------------------------------------------------------------------ *)

\* A column as written in a class body.
ColumnDecl ==
    [position : 0..MaxPos, primary_key : BOOLEAN,
     db_field : {None} \cup DbFieldNames, type : {"Column"}]

\* columns.UUID(primary_key=True): created after every declared column.
UUIDColumn ==
    [position |-> MaxPos + 1, primary_key |-> TRUE, db_field |-> None, type |-> "UUID"]

\* set_db_name: an unset storage name defaults to the field name.
SetDbName(col, name) ==
    [col EXCEPT !.db_field = IF col.db_field = None THEN name ELSE col.db_field]

\* get_property: an accessor on the column's value slot.
GetProperty(slot, allow_delete) == [slot |-> slot, allow_delete |-> allow_delete]

\* validate: does the value pass the column's validator?
ValidateOk(col, v) == v # "bad"

\* validate: the cleaned value; the identifier column generates one when absent.
ValidateValue(col, v) ==
    IF v = None /\ col.type = "UUID" THEN "uuid" ELSE v

\* to_database: the storage encoding of a value.
ToDatabase(col, v) == <<"db", col.type, v>>

(* ------------------------------------------------------------------ *)
(* OrderedDict and dict helpers                                        *)
(* ------------------------------------------------------------------ *)

\* The sequences that list every element of S once: the iteration orders of a dict.
Orders(S) ==
    {s \in [1..Cardinality(S) -> S] : \A i, j \in 1..Cardinality(S) : s[i] = s[j] => i = j}

OdHas(od, k) == \E i \in 1..Len(od) : od[i].name = k

\* od[k] = v: a new key goes last, an existing key keeps its place.
OdSet(od, k, v) ==
    IF OdHas(od, k)
    THEN [i \in 1..Len(od) |-> IF od[i].name = k THEN [name |-> k, col |-> v] ELSE od[i]]
    ELSE Append(od, [name |-> k, col |-> v])

OdKeys(od) == [i \in 1..Len(od) |-> od[i].name]

\* d[k] = v on a plain dict held as a set of <<key, value>>.
DictSet(d, k, v) == {e \in d : e[1] # k} \cup {<<k, v>>}

\* attrs[k] = v on a function.
FnSet(f, k, v) == [n \in DOMAIN f \cup {k} |-> IF n = k THEN v ELSE f[n]]

(* ------------------------------------------------------------------ *)
(* ModelMetaClass.__new__                                              *)
(* ------------------------------------------------------------------ *)

\* sorted(column_definitions, cmp on position): stable, so ties keep their order.
InsertByPosition(sorted, e) ==
    LET k == Cardinality({i \in 1..Len(sorted) : sorted[i].col.position <= e.col.position})
    IN  SubSeq(sorted, 1, k) \o <<e>> \o SubSeq(sorted, k + 1, Len(sorted))

RECURSIVE SortByPosition(_)
SortByPosition(defs) ==
    IF defs = <<>> THEN <<>>
    ELSE InsertByPosition(SortByPosition(SubSeq(defs, 1, Len(defs) - 1)), defs[Len(defs)])

\* The (k, v) pairs of the class body that are columns, in the dict's order, sorted.
ColumnDefinitions(order) ==
    SortByPosition([i \in 1..Len(order) |-> [name |-> order[i], col |-> decl[order[i]]]])

\* "prepend primary key if none has been defined"
WithPrimaryKey(defs) ==
    IF \E i \in 1..Len(defs) : defs[i].col.primary_key
    THEN defs
    ELSE <<[name |-> "id", col |-> UUIDColumn]>> \o defs

\* _transform_column for one pair, with the pk_name bookkeeping of the loop.
TransformColumn(acc, def) ==
    LET col == SetDbName(def.col, def.name)
    IN  [_columns |-> OdSet(acc._columns, def.name, col),
         attrs    |-> FnSet(acc.attrs, def.name, GetProperty(def.name, ~col.primary_key)),
         pk_name  |-> IF acc.pk_name = None /\ col.primary_key THEN def.name ELSE acc.pk_name]

RECURSIVE TransformAll(_, _)
TransformAll(acc, defs) ==
    IF defs = <<>> THEN acc
    ELSE TransformAll(TransformColumn(acc, Head(defs)), Tail(defs))

\* "setup primary key shortcut"
WithPkShortcut(t) ==
    IF t.pk_name # "pk"
    THEN [t EXCEPT !.attrs = FnSet(t.attrs, "pk", GetProperty(t.pk_name, FALSE))]
    ELSE t

\* The duplicate check comparing the field names, which a dict keeps distinct.
DuplicateAtByFieldName(cols) ==
    LET dups == {i \in 1..Len(cols) : \E j \in 1..(i - 1) : cols[j].name = cols[i].name}
    IN  IF dups = {} THEN 0 ELSE CHOOSE i \in dups : \A j \in dups : i <= j

\* "check for duplicate column names": the index of the first column whose
\* db_field was seen before, 0 when there is none.
DuplicateAt(cols) ==
    LET dups == {i \in 1..Len(cols) : \E j \in 1..(i - 1) : cols[j].col.db_field = cols[i].col.db_field}
    IN  IF dups = {} THEN 0 ELSE CHOOSE i \in dups : \A j \in dups : i <= j

\* cf_name = attrs.pop('db_name', name): the value popped.
CfName == IF db_name # None THEN db_name ELSE TypeName

\* db_map: storage name -> field name, later columns overwriting earlier ones.
RECURSIVE DbMap(_, _)
DbMap(cols, m) ==
    IF cols = <<>> THEN m
    ELSE DbMap(Tail(cols), DictSet(m, Head(cols).col.db_field, Head(cols).name))

\* The loop over _columns.items() that builds db_map rebinds `name`.
NameAfterDbMapLoop(cols) == IF cols = <<>> THEN TypeName ELSE cols[Len(cols)].name

\* The whole of __new__ for one iteration order of the class body.
NewClass(order) ==
    LET defs == WithPrimaryKey(ColumnDefinitions(order))
        t    == WithPkShortcut(TransformAll(
                    [_columns |-> <<>>, attrs |-> [n \in {} |-> 0], pk_name |-> None], defs))
        dup  == DuplicateAt(t._columns)
    IN  IF dup # 0
        THEN [ok |-> FALSE,
              exc |-> [type |-> "ModelException", model |-> TypeName,
                       column |-> t._columns[dup].col.db_field]]
        ELSE [ok |-> TRUE,
              klass |-> [__name__ |-> NameAfterDbMapLoop(t._columns),
                         \* db_name was popped from attrs: BaseModel.db_name shows through
                         db_name  |-> None,
                         _columns |-> t._columns,
                         _db_map  |-> DbMap(t._columns, {}),
                         _pk_name |-> t.pk_name,
                         attrs    |-> t.attrs,
                         objects  |-> "Manager"]]

NoClass == [objects |-> None]
NoException == [type |-> None]
NoOp == [op |-> "none", inst |-> None, arg |-> None, events |-> <<>>,
         ret |-> None, exc |-> None, dict |-> {}]

Init ==
    /\ \E S \in SUBSET FieldNames : decl \in [S -> ColumnDecl]
    /\ db_name \in DbNameChoices
    /\ phase = "declared"
    /\ klass = NoClass
    /\ raised = NoException
    /\ inst = [i \in Instances |-> [n \in {} |-> None]]
    /\ made = {}
    /\ dyn = {}
    /\ lastOp = NoOp

\* The class statement runs: the metaclass builds the class or raises.
Build ==
    /\ phase = "declared"
    /\ \E order \in Orders(DOMAIN decl) :
         LET r == NewClass(order)
         IN  IF r.ok
             THEN /\ phase' = "built"
                  /\ klass' = r.klass
                  /\ raised' = raised
             ELSE /\ phase' = "failed"
                  /\ klass' = klass
                  /\ raised' = r.exc
    /\ UNCHANGED <<decl, db_name, inst, made, dyn, lastOp>>

(* ------------------------------------------------------------------ *)
(* BaseModel: attribute access through the installed accessors         *)
(* ------------------------------------------------------------------ *)

ColumnNames == {klass._columns[k].name : k \in 1..Len(klass._columns)}

\* getattr(self, name) through the accessor the metaclass installed under name.
GetAttr(slots, name) == slots[klass.attrs[name].slot]

\* setattr(self, name, v) through the accessor installed under name.
SetAttr(slots, name, v) == FnSet(slots, klass.attrs[name].slot, v)

\* BaseModel.pk; the accessor the metaclass installs as 'pk' shadows the property.
Pk(slots) ==
    IF "pk" \in DOMAIN klass.attrs THEN GetAttr(slots, "pk")
    ELSE GetAttr(slots, klass._pk_name)

\* __init__, first loop: set columns from values. Only names of columns are
\* set, each through its own accessor, so the dict's order does not show.
InitFromValues(slots, values) ==
    LET K == DOMAIN values \cap ColumnNames
    IN  [n \in DOMAIN slots \cup {klass.attrs[k].slot : k \in K} |->
            IF \E k \in K : klass.attrs[k].slot = n
            THEN values[CHOOSE k \in K : klass.attrs[k].slot = n]
            ELSE slots[n]]

\* __init__, second loop: set excluded columns to None.
RECURSIVE InitExcluded(_, _, _)
InitExcluded(slots, values, names) ==
    IF names = <<>> THEN slots
    ELSE InitExcluded(
             IF Head(names) \notin DOMAIN values
             THEN SetAttr(slots, Head(names), None) ELSE slots,
             values, Tail(names))

\* Model(**values)
Construct(i) ==
    /\ phase = "built"
    /\ i \notin made
    /\ \E K \in SUBSET KwargNames : \E values \in [K -> RawValues] :
         inst' = [inst EXCEPT ![i] =
                      InitExcluded(InitFromValues([n \in {} |-> None], values),
                                   values, OdKeys(klass._columns))]
    /\ made' = made \cup {i}
    /\ lastOp' = [NoOp EXCEPT !.op = "construct", !.inst = i]
    /\ UNCHANGED <<decl, db_name, phase, klass, raised, dyn>>

\* instance.<name> = v, for a name the metaclass installed an accessor under.
SetField(i) ==
    /\ phase = "built"
    /\ i \in made
    /\ \E name \in DOMAIN klass.attrs : \E v \in RawValues :
         /\ inst' = [inst EXCEPT ![i] = SetAttr(inst[i], name, v)]
         /\ lastOp' = [NoOp EXCEPT !.op = "setattr", !.inst = i]
    /\ UNCHANGED <<decl, db_name, phase, klass, raised, made, dyn>>

\* del instance.<name>: the accessor unsets the slot, or refuses.
DelField(i) ==
    /\ phase = "built"
    /\ i \in made
    /\ \E name \in DOMAIN klass.attrs :
         IF klass.attrs[name].allow_delete
         THEN /\ inst' = [inst EXCEPT ![i] = SetAttr(inst[i], name, None)]
              /\ lastOp' = [NoOp EXCEPT !.op = "delattr", !.inst = i, !.arg = name]
         ELSE /\ inst' = inst
              /\ lastOp' = [NoOp EXCEPT !.op = "delattr", !.inst = i, !.arg = name,
                                        !.exc = "AttributeError"]
    /\ UNCHANGED <<decl, db_name, phase, klass, raised, made, dyn>>

\* instance.pk read
ReadPk(i) ==
    /\ phase = "built"
    /\ i \in made
    /\ lastOp' = [NoOp EXCEPT !.op = "pk", !.inst = i, !.ret = Pk(inst[i])]
    /\ UNCHANGED <<decl, db_name, phase, klass, raised, inst, made, dyn>>

(* ------------------------------------------------------------------ *)
(* BaseModel.validate, as_dict, save, delete, find                     *)
(* ------------------------------------------------------------------ *)

\* validate(): the loop over _columns.items(); a validator that raises ends it.
RECURSIVE ValidateLoop(_, _, _)
ValidateLoop(slots, cols, events) ==
    IF cols = <<>> THEN [slots |-> slots, events |-> events, exc |-> None]
    ELSE LET name == Head(cols).name
             col  == Head(cols).col
             cur  == GetAttr(slots, name)
             seen == Append(events, <<"validate", name>>)
         IN  IF ~ValidateOk(col, cur)
             THEN [slots |-> slots, events |-> seen, exc |-> "ValidationError"]
             ELSE ValidateLoop(SetAttr(slots, name, ValidateValue(col, cur)), Tail(cols), seen)

RunValidate(slots) == ValidateLoop(slots, klass._columns, <<>>)

Validate(i) ==
    /\ phase = "built"
    /\ i \in made
    /\ LET r == RunValidate(inst[i])
       IN  /\ inst' = [inst EXCEPT ![i] = r.slots]
           /\ lastOp' = [NoOp EXCEPT !.op = "validate", !.inst = i,
                                     !.events = r.events, !.exc = r.exc]
    /\ UNCHANGED <<decl, db_name, phase, klass, raised, made, dyn>>

\* as_dict() starting from the class's dict itself: values = self._dynamic_columns
AsDictStartOnClassDict(d) == [values |-> d, shared |-> TRUE]

\* as_dict(): values = self._dynamic_columns or {}
AsDictStart(d) == IF d # {} THEN [values |-> d, shared |-> TRUE]
                  ELSE [values |-> {}, shared |-> FALSE]

\* as_dict(): the key a column's value is stored under in the result.
AsDictKey(name, col) == name

\* as_dict(): the loop over _columns.items().
RECURSIVE AsDictLoop(_, _, _, _)
AsDictLoop(slots, cols, values, events) ==
    IF cols = <<>> THEN [values |-> values, events |-> events]
    ELSE LET name == Head(cols).name
             col  == Head(cols).col
         IN  AsDictLoop(slots, Tail(cols),
                        DictSet(values, AsDictKey(name, col),
                                ToDatabase(col, GetAttr(slots, name))),
                        Append(events, <<"to_database", name>>))

\* as_dict() on given slots with the class's _dynamic_columns being d: the
\* mapping returned, and _dynamic_columns afterwards (the loop writes into the
\* very dict it started from).
RunAsDict(slots, d) ==
    LET start == AsDictStart(d)
        r     == AsDictLoop(slots, klass._columns, start.values, <<>>)
    IN  [dict |-> r.values, events |-> r.events,
         dyn  |-> IF start.shared THEN r.values ELSE d]

AsDict(i) ==
    /\ phase = "built"
    /\ i \in made
    /\ LET r == RunAsDict(inst[i], dyn)
       IN  /\ dyn' = r.dyn
           /\ lastOp' = [NoOp EXCEPT !.op = "as_dict", !.inst = i,
                                     !.events = r.events, !.ret = "dict", !.dict = r.dict]
    /\ UNCHANGED <<decl, db_name, phase, klass, raised, inst, made>>

\* save() reading the primary key after validate() instead of before.
RunSaveValidateFirst(i, slots) ==
    LET v      == ValidateLoop(slots, klass._columns, <<>>)
        is_new == (Pk(v.slots) = None)
        first  == <<<<"is_new", IF is_new THEN "True" ELSE "False">>>>
    IN  IF v.exc # None
        THEN [slots |-> v.slots, events |-> first \o v.events, ret |-> None, exc |-> v.exc]
        ELSE [slots |-> v.slots,
              events |-> first \o v.events \o <<<<"_save_instance", i>>>>,
              ret |-> i, exc |-> None]

\* save(): is_new, validate(), objects._save_instance(self), return self.
RunSave(i, slots) ==
    LET is_new == (Pk(slots) = None)
        first  == <<<<"is_new", IF is_new THEN "True" ELSE "False">>>>
        v      == RunValidate(slots)
    IN  IF v.exc # None
        THEN [slots |-> v.slots, events |-> first \o v.events, ret |-> None, exc |-> v.exc]
        ELSE [slots |-> v.slots,
              events |-> first \o v.events \o <<<<"_save_instance", i>>>>,
              ret |-> i, exc |-> None]

Save(i) ==
    /\ phase = "built"
    /\ i \in made
    /\ LET r == RunSave(i, inst[i])
       IN  /\ inst' = [inst EXCEPT ![i] = r.slots]
           /\ lastOp' = [NoOp EXCEPT !.op = "save", !.inst = i, !.events = r.events,
                                     !.ret = r.ret, !.exc = r.exc]
    /\ UNCHANGED <<decl, db_name, phase, klass, raised, made, dyn>>

\* delete(): objects._delete_instance(self)
Delete(i) ==
    /\ phase = "built"
    /\ i \in made
    /\ lastOp' = [NoOp EXCEPT !.op = "delete", !.inst = i,
                              !.events = <<<<"_delete_instance", i>>>>]
    /\ UNCHANGED <<decl, db_name, phase, klass, raised, inst, made, dyn>>

\* find(): what the caller gets for an outcome of the Manager's find.
FindReturn(outcome) == None

\* Model.find(pk): cls.objects.find(pk)
Find ==
    /\ phase = "built"
    /\ \E k \in Keys : \E outcome \in ManagerOutcomes :
         lastOp' = [NoOp EXCEPT !.op = "find", !.arg = k,
                                !.events = <<<<"objects.find", k, outcome>>>>,
                                !.ret = IF outcome = "NotFound" THEN None
                                        ELSE FindReturn(outcome),
                                !.exc = IF outcome = "NotFound" THEN "NotFound" ELSE None]
    /\ UNCHANGED <<decl, db_name, phase, klass, raised, inst, made, dyn>>

Next ==
    \/ Build
    \/ \E i \in Instances : Construct(i)
    \/ \E i \in Instances : SetField(i)
    \/ \E i \in Instances : DelField(i)
    \/ \E i \in Instances : ReadPk(i)
    \/ \E i \in Instances : Validate(i)
    \/ \E i \in Instances : AsDict(i)
    \/ \E i \in Instances : Save(i)
    \/ \E i \in Instances : Delete(i)
    \/ Find

Spec == Init /\ [][Next]_vars

(* ------------------------------------------------------------------ *)
(* Vocabulary of the properties                                        *)
(* ------------------------------------------------------------------ *)

Built == phase = "built"

Cols == klass._columns

\* The declared columns with primary_key=true.
DeclaredPk == {n \in DOMAIN decl : decl[n].primary_key}

\* The places of _columns that hold a column with primary_key=true.
PkColumns == {k \in 1..Len(Cols) : Cols[k].col.primary_key}

\* The storage name a declaration resolves to.
Resolved(n) == IF decl[n].db_field = None THEN n ELSE decl[n].db_field

\* Two declared columns resolve to the same storage name.
DeclaredDuplicate == \E n, m \in DOMAIN decl : n # m /\ Resolved(n) = Resolved(m)

\* A declared column resolves to the storage name of the synthesized identifier.
ClashWithSynthesized == DeclaredPk = {} /\ \E n \in DOMAIN decl : Resolved(n) = "id"

DistinctPositions ==
    \A n, m \in DOMAIN decl : n # m => decl[n].position # decl[m].position

\* The declared names in ascending position order.
AscendingDeclared ==
    CHOOSE s \in Orders(DOMAIN decl) :
        \A k \in 1..(Len(s) - 1) : decl[s[k]].position <= decl[s[k + 1]].position

\* The names an operation's events visit, in order.
Visited(kind) ==
    LET idx == {k \in 1..Len(lastOp.events) : lastOp.events[k][1] = kind}
    IN  [k \in 1..Cardinality(idx) |->
            lastOp.events[CHOOSE m \in idx : Cardinality({x \in idx : x <= m}) = k][2]]

\* The table name a class stands for: its db_name attribute, else its name.
TableName(k) == IF k.db_name # None THEN k.db_name ELSE k.__name__

(* ------------------------------------------------------------------ *)
(* C1                                                                  *)
(* ------------------------------------------------------------------ *)

\* C1: every built schema has exactly one column with primary_key=true, and
\* primary_key_name is the field name of that column. Stated for the class
\* bodies that declare a primary key, two or more included, where no identifier
\* is synthesized.
C1_ExactlyOnePrimaryKey ==
    (Built /\ DeclaredPk # {}) =>
        /\ Cardinality(PkColumns) = 1
        /\ \A k \in PkColumns : Cols[k].name = klass._pk_name

(* ------------------------------------------------------------------ *)
(* C2                                                                  *)
(* ------------------------------------------------------------------ *)

\* C2: with no declared primary key the schema has the synthesized UUID column
\* `id` as its only primary-key column and primary_key_name = "id"; with exactly
\* one declared primary key, primary_key_name is that column's name and the
\* columns are exactly the declared ones.
C2_IdSynthesizedIffNoPrimaryKey ==
    Built =>
      /\ DeclaredPk = {} =>
           /\ klass._pk_name = "id"
           /\ PkColumns # {}
           /\ \A k \in PkColumns : Cols[k].name = "id" /\ Cols[k].col.type = "UUID"
      /\ Cardinality(DeclaredPk) = 1 =>
           /\ klass._pk_name \in DeclaredPk
           /\ ColumnNames = DOMAIN decl
           /\ \A k \in 1..Len(Cols) : Cols[k].col.type = "Column"

(* ------------------------------------------------------------------ *)
(* C3                                                                  *)
(* ------------------------------------------------------------------ *)

\* C3: with pairwise distinct positions, the columns are the declared columns in
\* ascending position order, preceded by the synthesized `id` when one is
\* synthesized (which needs that no primary key is declared); validate() and
\* as_dict() visit the columns in the order of the schema.
C3_ColumnsInPositionOrder ==
    (Built /\ DistinctPositions) =>
      /\ \/ OdKeys(Cols) = AscendingDeclared
         \/ DeclaredPk = {} /\ OdKeys(Cols) = <<"id">> \o AscendingDeclared
      /\ (lastOp.op = "validate" /\ lastOp.exc = None) => Visited("validate") = OdKeys(Cols)
      /\ lastOp.op = "as_dict" => Visited("to_database") = OdKeys(Cols)

(* ------------------------------------------------------------------ *)
(* C4                                                                  *)
(* ------------------------------------------------------------------ *)

\* What a failed build leaves: the schema-definition error naming the type and a
\* repeated storage field, no class, no Manager, no instance.
FailedCleanly ==
    /\ raised.type = "ModelException"
    /\ raised.model = TypeName
    /\ \/ \E n, m \in DOMAIN decl : n # m /\ Resolved(n) = raised.column /\ Resolved(m) = raised.column
       \/ ClashWithSynthesized /\ raised.column = "id"
    /\ klass = NoClass
    /\ made = {}

\* C4 (as stated): declared columns sharing a storage name make the build fail
\* before the class and its Manager exist; declared columns with pairwise
\* distinct storage names build without this error.
C4_Original ==
    phase # "declared" =>
      /\ DeclaredDuplicate => (phase = "failed" /\ FailedCleanly)
      /\ ~DeclaredDuplicate => phase # "failed"

\* C4 (amended): declared columns sharing a storage name make the build fail with
\* ModelException naming the type and the repeated storage field, before the class
\* and its Manager exist and so before any instance; a build fails with this error
\* only if two declared columns share a storage name or, no primary key being
\* declared, a declared column resolves to the storage name `id` of the
\* synthesized identifier.
C4_DuplicateStorageNameFails ==
    phase # "declared" =>
      /\ DeclaredDuplicate => phase = "failed"
      /\ phase = "failed" => (FailedCleanly /\ (DeclaredDuplicate \/ ClashWithSynthesized))
      /\ ~(DeclaredDuplicate \/ ClashWithSynthesized) => Built

\* A build that failed on two declared columns sharing a storage name.
C4_Witness ==
    /\ phase = "failed"
    /\ DeclaredDuplicate
    /\ \E n \in DOMAIN decl : decl[n].db_field = None /\ Resolved(n) = raised.column

(* ------------------------------------------------------------------ *)
(* C5                                                                  *)
(* ------------------------------------------------------------------ *)

\* C5: as_dict() maps, for every column, the column's storage name (db_field) to
\* to_database(current value of the field); every other key is a dynamic entry
\* under a key that is no column's storage name.
C5_AsDictKeyedByStorageName ==
    (Built /\ lastOp.op = "as_dict") =>
      LET storage == {Cols[k].col.db_field : k \in 1..Len(Cols)}
      IN  /\ \A k \in 1..Len(Cols) :
                <<Cols[k].col.db_field,
                  ToDatabase(Cols[k].col, inst[lastOp.inst][Cols[k].name])>> \in lastOp.dict
          /\ \A e \in lastOp.dict : e[1] \notin storage => e \in dyn

(* ------------------------------------------------------------------ *)
(* C6                                                                  *)
(* ------------------------------------------------------------------ *)

\* What one save() of instance i must have done, the state before against the
\* state after.
SaveContract(i) ==
    LET ev    == lastOp'.events
        n     == Len(Cols)
        fails == \E k \in 1..n : ~ValidateOk(Cols[k].col, inst[i][Cols[k].name])
        saves == {k \in 1..Len(ev) : ev[k][1] = "_save_instance"}
    IN  /\ Len(ev) >= 1
        /\ ev[1] = <<"is_new", IF inst[i][klass._pk_name] = None THEN "True" ELSE "False">>
        /\ \A k \in 2..Len(ev) : ev[k][1] # "is_new"
        /\ IF fails
           THEN /\ lastOp'.exc = "ValidationError"
                /\ saves = {}
                /\ lastOp'.ret = None
           ELSE /\ lastOp'.exc = None
                /\ Len(ev) = n + 2
                /\ \A k \in 1..n : ev[k + 1] = <<"validate", Cols[k].name>>
                /\ ev[n + 2] = <<"_save_instance", i>>
                /\ saves = {n + 2}
                /\ lastOp'.ret = i
                /\ \A k \in 1..n :
                     inst'[i][Cols[k].name] = ValidateValue(Cols[k].col, inst[i][Cols[k].name])

\* C6: save() computes is_new from the primary key as it is at entry, then
\* validates every column in order, then calls _save_instance exactly once with
\* the instance and returns the instance; a failing validator propagates and
\* _save_instance is not called.
C6_SaveOrder ==
    [][\A i \in Instances :
          (lastOp'.op = "save" /\ lastOp'.inst = i /\ Save(i)) => SaveContract(i)]_vars

\* A save() that found no primary key at entry, validated (which assigned one),
\* and handed the instance to the Manager.
C6_Witness ==
    /\ Built
    /\ lastOp.op = "save"
    /\ lastOp.exc = None
    /\ lastOp.events[1] = <<"is_new", "True">>
    /\ Pk(inst[lastOp.inst]) # None
    /\ lastOp.events[Len(lastOp.events)] = <<"_save_instance", lastOp.inst>>
    /\ lastOp.ret = lastOp.inst

(* ------------------------------------------------------------------ *)
(* C7                                                                  *)
(* ------------------------------------------------------------------ *)

\* C7: deleting the primary-key field, through its field name or through `pk`,
\* is rejected, and reading `pk` returns the value stored under primary_key_name.
C7_PrimaryKeyNotDeletable ==
    Built =>
      /\ (lastOp.op = "delattr" /\ lastOp.arg \in {klass._pk_name, "pk"})
            => lastOp.exc = "AttributeError"
      /\ lastOp.op = "pk" => lastOp.ret = inst[lastOp.inst][klass._pk_name]

(* ------------------------------------------------------------------ *)
(* C8                                                                  *)
(* ------------------------------------------------------------------ *)

\* C8: find(primary_key) calls the Manager's find once with the same key and
\* hands the Manager's outcome to its caller: the record found, or NotFound.
C8_FindDeliversOutcome ==
    lastOp.op = "find" =>
      /\ Len(lastOp.events) = 1
      /\ lastOp.events[1][1] = "objects.find"
      /\ lastOp.events[1][2] = lastOp.arg
      /\ lastOp.events[1][3] = "NotFound" => lastOp.exc = "NotFound"
      /\ lastOp.events[1][3] = "record" => (lastOp.exc = None /\ lastOp.ret = "record")

(* ------------------------------------------------------------------ *)
(* C9                                                                  *)
(* ------------------------------------------------------------------ *)

\* C9: the built type carries the table name db_name when the class body gives
\* one and the type's declared name otherwise, and the type's own name is the
\* name given in its definition.
C9_TableName ==
    Built => /\ klass.__name__ = TypeName
             /\ TableName(klass) = CfName

(* ------------------------------------------------------------------ *)
(* C10                                                                 *)
(* ------------------------------------------------------------------ *)

====
